---- MODULE Spec2Model ----
(***************************************************************************)
(* Model of flashlight_assembly.py: a single-threaded script that sends a  *)
(* fixed sequence of motion and tool commands to one UR5 robot handle.     *)
(*                                                                         *)
(* Numbers.  The source uses decimal literals.  Lengths are kept here in   *)
(* micrometres (mm(w, f) is the literal w.f mm with f in thousandths),     *)
(* joint angles in microdegrees (deg(w, f) is w.f degrees with f in        *)
(* millionths), Euler angles of a Pose and speeds as the whole numbers the *)
(* source writes.                                                          *)
(***************************************************************************)
EXTENDS Integers, Sequences, FiniteSets, TLC

VARIABLES
    invocation,  \* the entry call being run: [fn, args]
    pc,          \* index of the next statement of Program(invocation)
    status,      \* "running", "done" (returned) or "raised" (exception escaped)
    issued,      \* commands sent to the robot so far, oldest first
    robot,       \* state owned by the external controller
    result       \* value returned by the last call that returned

vars == <<invocation, pc, status, issued, robot, result>>

\* Largest whole-millimetre height drawn for a function called on its own.
MaxHeight == 2

mm(w, f) == w * 1000 + f
deg(w, f) == w * 1000000 + f

(***************************************************************************)
(* Configuration constants                                                 *)
(***************************************************************************)
INSTRUCTION_INSERT_CODE == 0

GLOBAL_ACCELERATION == 500

tray_coords ==
    (0 :> << -mm(414, 400), -mm(456, 170) >>) @@
    (1 :> << -mm(334, 850), -mm(456, 720) >>) @@
    (2 :> << -mm(259, 80),  -mm(457, 450) >>) @@
    (3 :> << -mm(182, 530), -mm(456, 900) >>) @@
    (4 :> << -mm(256, 800), -mm(458, 100) >>)

CLEAR_HEIGHT == mm(130, 0)

Joints(v) == [kind |-> "joints", v |-> v]

HOME_POSITION == Joints(<<0, -deg(90, 0), 0, -deg(90, 0), 0, 0>>)

GRIP_HEIGHTS ==
    [endcap |-> mm(10, 0), battery |-> mm(34, 0),
     head |-> mm(65, 300), pedestal |-> mm(60, 900)]

CLAMP_XY == << -mm(322, 980), mm(38, 300) >>

CLAMP_HEIGHTS ==
    [release_head |-> mm(163, 900), release_battery |-> mm(192, 751),
     release_endcap |-> mm(197, 310), pickup_flashlight |-> mm(187, 0),
     clear |-> mm(250, 0)]

ENDCAP_CLR_JOINTS ==
    Joints(<<deg(37, 410000), -deg(72, 760000), deg(83, 210000),
             -deg(100, 440000), -deg(89, 730000), -deg(142, 510000)>>)

INTERMEDIATE_JOINTS ==
    Joints(<<deg(8, 348806), -deg(77, 787199), deg(103, 336014),
             -deg(25, 548815), deg(8, 348806), -deg(194, 849375)>>)

PED_CLR_JOINTS ==
    Joints(<<deg(15, 320000), -deg(96, 400000), deg(143, 410000),
             -deg(47, 20000), deg(15, 300000), -deg(180, 0)>>)

PED_DROP_JOINTS ==
    Joints(<<deg(15, 310000), -deg(84, 250000), deg(147, 340000),
             -deg(63, 90000), deg(15, 300000), -deg(180, 0)>>)

(***************************************************************************)
(* Values and commands of the robot API                                    *)
(***************************************************************************)
None == [kind |-> "None", v |-> <<>>]

Pose(x, y, z, rxd, ryd, rzd) == [kind |-> "pose", v |-> <<x, y, z, rxd, ryd, rzd>>]

robot_MoveJ(target) == [op |-> "MoveJ", arg |-> target]

robot_MoveL(target) == [op |-> "MoveL", arg |-> target]

robot_RunCodeCustom(code, run_type) ==
    [op |-> "RunCodeCustom", arg |-> [code |-> code, run_type |-> run_type]]

robot_setSpeed(speed) == [op |-> "setSpeed", arg |-> speed]

robot_setAcceleration(acceleration) == [op |-> "setAcceleration", arg |-> acceleration]

robot_setSpeedJoints(speed) == [op |-> "setSpeedJoints", arg |-> speed]

(***************************************************************************)
(* Helper functions                                                        *)
(***************************************************************************)
set_motion_params(speed, acceleration) ==
    <<robot_setSpeed(speed), robot_setAcceleration(acceleration)>>

tray_pose_swapped(tray_index, z) ==
    Pose(tray_coords[tray_index][2], tray_coords[tray_index][1], z, 180, 0, 90)

tray_pose(tray_index, z) ==
    Pose(tray_coords[tray_index][1], tray_coords[tray_index][2], z, 180, 0, 90)

(***************************************************************************)
(* Core functions: each is the sequence of robot commands its body issues  *)
(***************************************************************************)
goto_and_pickup_tray_no_special_case(tray_slot_index, pickup_height, clear_height) ==
    set_motion_params(1000, GLOBAL_ACCELERATION) \o
    <<robot_MoveJ(tray_pose(tray_slot_index, clear_height)),
      robot_MoveL(tray_pose(tray_slot_index, pickup_height)),
      robot_RunCodeCustom("rq_close_and_wait()", INSTRUCTION_INSERT_CODE),
      robot_MoveL(tray_pose(tray_slot_index, clear_height))>>

goto_and_pickup_tray(tray_slot_index, pickup_height, clear_height) ==
    set_motion_params(1000, GLOBAL_ACCELERATION) \o
    IF tray_slot_index = 0
    THEN <<robot_MoveJ(ENDCAP_CLR_JOINTS),
           robot_MoveL(Pose(tray_coords[0][1], tray_coords[0][2], pickup_height, 180, 0, 90)),
           robot_RunCodeCustom("rq_close_and_wait()", INSTRUCTION_INSERT_CODE),
           robot_MoveL(Pose(tray_coords[0][1], tray_coords[0][2], clear_height, 180, 0, 90))>>
    ELSE LET approach == tray_pose(tray_slot_index, clear_height)
             pickup   == tray_pose(tray_slot_index, pickup_height)
         IN  <<robot_MoveJ(approach),
               robot_MoveL(pickup),
               robot_RunCodeCustom("rq_close_and_wait()", INSTRUCTION_INSERT_CODE),
               robot_MoveL(approach)>>

goto_and_release_tray(tray_slot_index, release_height, clear_height) ==
    LET approach == tray_pose(tray_slot_index, clear_height)
        release  == tray_pose(tray_slot_index, release_height)
    IN  set_motion_params(1000, GLOBAL_ACCELERATION) \o
        <<robot_MoveL(approach),
          robot_setSpeed(200),
          robot_MoveL(release),
          robot_RunCodeCustom("rq_open()", INSTRUCTION_INSERT_CODE),
          robot_MoveL(approach)>>

move_endcap_to_pedestal ==
    set_motion_params(1000, GLOBAL_ACCELERATION) \o
    <<robot_MoveJ(INTERMEDIATE_JOINTS),
      robot_MoveJ(PED_CLR_JOINTS),
      robot_MoveL(PED_DROP_JOINTS),
      robot_RunCodeCustom("rq_open()", INSTRUCTION_INSERT_CODE),
      robot_MoveJ(PED_CLR_JOINTS)>>

(***************************************************************************)
(* Integrated clamp functions                                              *)
(***************************************************************************)
pickup_from_clamp(pickup_height, clear_height) ==
    LET safe_pose   == Pose(CLAMP_XY[1], CLAMP_XY[2], clear_height, 180, 0, 90)
        pickup_pose == Pose(CLAMP_XY[1], CLAMP_XY[2], pickup_height, 180, 0, 90)
    IN  set_motion_params(1000, GLOBAL_ACCELERATION) \o
        <<robot_setSpeed(200),
          robot_MoveL(pickup_pose),
          robot_RunCodeCustom("rq_close_and_wait()", INSTRUCTION_INSERT_CODE),
          robot_MoveL(safe_pose)>>

release_into_clamp(release_height, clear_height) ==
    LET safe_pose    == Pose(CLAMP_XY[1], CLAMP_XY[2], clear_height, 180, 0, 90)
        release_pose == Pose(CLAMP_XY[1], CLAMP_XY[2], release_height, 180, 0, 90)
    IN  set_motion_params(1000, GLOBAL_ACCELERATION) \o
        <<robot_MoveJ(safe_pose),
          robot_setSpeed(200),
          robot_MoveL(release_pose),
          robot_RunCodeCustom("rq_open()", INSTRUCTION_INSERT_CODE),
          robot_MoveL(safe_pose)>>

new_clamp_x == -mm(322, 250)

new_clamp_y == mm(38, 780)

initial_turning_angle ==
    Joints(<< -deg(26, 510000), -deg(115, 180000), deg(112, 670000),
              -deg(87, 480000), -deg(90, 0), -deg(206, 510000) >>)

final_turning_angle ==
    Joints(<< -deg(26, 510124), -deg(115, 194661), deg(113, 40864),
              -deg(87, 836005), -deg(89, 999890), deg(11, 929876) >>)

tighten_torque_pose ==
    Joints(<< -deg(26, 510000), -deg(115, 180000), deg(112, 670000),
              -deg(87, 480000), -deg(90, 0), -deg(206, 510000) >>)

tighten_torque_code == "tighten_torque(2, -205.27, -115.27, 2, 2, 1, 100, 100, 50)"

\* for i in range(n): body
RECURSIVE for_range(_, _)
for_range(n, body) == IF n <= 0 THEN <<>> ELSE body \o for_range(n - 1, body)

tighten_cap_engage ==
    LET safe_pose == Pose(new_clamp_x, new_clamp_y, CLAMP_HEIGHTS["clear"], 180, 0, 90)
    IN  set_motion_params(1000, GLOBAL_ACCELERATION) \o
        <<robot_RunCodeCustom("clamp()", INSTRUCTION_INSERT_CODE),
          robot_MoveJ(safe_pose),
          robot_MoveL(initial_turning_angle),
          robot_setSpeedJoints(700)>>

tighten_cap_toggle_five ==
    for_range(5,
        <<robot_RunCodeCustom("rq_close_and_wait()", INSTRUCTION_INSERT_CODE),
          robot_MoveJ(final_turning_angle),
          robot_RunCodeCustom("rq_open()", INSTRUCTION_INSERT_CODE),
          robot_setSpeedJoints(200),
          robot_MoveJ(initial_turning_angle)>>)

tighten_cap_toggle ==
    for_range(6,
        <<robot_RunCodeCustom("rq_close_and_wait()", INSTRUCTION_INSERT_CODE),
          robot_MoveJ(final_turning_angle),
          robot_RunCodeCustom("rq_open()", INSTRUCTION_INSERT_CODE),
          robot_setSpeedJoints(200),
          robot_MoveJ(initial_turning_angle)>>)

tighten_cap_finish_no_unclamp ==
    <<robot_MoveJ(tighten_torque_pose),
      robot_RunCodeCustom(tighten_torque_code, INSTRUCTION_INSERT_CODE)>>

tighten_cap_finish ==
    <<robot_MoveJ(tighten_torque_pose),
      robot_RunCodeCustom(tighten_torque_code, INSTRUCTION_INSERT_CODE),
      robot_RunCodeCustom("unclamp()", INSTRUCTION_INSERT_CODE)>>

tighten_cap == tighten_cap_engage \o tighten_cap_toggle \o tighten_cap_finish

(***************************************************************************)
(* Main program.  A statement is a command tagged with the function whose  *)
(* body issues it; a call ends with the callee's return.                   *)
(***************************************************************************)
Own(fn, body) ==
    [i \in 1..Len(body) |-> [fn |-> fn, op |-> body[i].op, arg |-> body[i].arg]]

Called(fn, body, value) ==
    Own(fn, body) \o <<[fn |-> fn, op |-> "return", arg |-> value]>>

main_start_no_unclamp ==
    Own("main", <<robot_MoveJ(HOME_POSITION)>> \o set_motion_params(1000, GLOBAL_ACCELERATION))

main_start ==
    Own("main",
        <<robot_RunCodeCustom("unclamp()", INSTRUCTION_INSERT_CODE),
          robot_MoveJ(HOME_POSITION)>> \o
        set_motion_params(1000, GLOBAL_ACCELERATION))

main_step2 ==
    Called("goto_and_pickup_tray",
           goto_and_pickup_tray(0, GRIP_HEIGHTS["endcap"], CLEAR_HEIGHT), None) \o
    Called("move_endcap_to_pedestal", move_endcap_to_pedestal, None)

main_step3_wrong_slot ==
    Called("goto_and_pickup_tray",
           goto_and_pickup_tray(1, GRIP_HEIGHTS["head"], CLEAR_HEIGHT), None) \o
    Called("release_into_clamp",
           release_into_clamp(CLAMP_HEIGHTS["release_head"], CLAMP_HEIGHTS["clear"]), None)

main_step3 ==
    Called("goto_and_pickup_tray",
           goto_and_pickup_tray(2, GRIP_HEIGHTS["head"], CLEAR_HEIGHT), None) \o
    Called("release_into_clamp",
           release_into_clamp(CLAMP_HEIGHTS["release_head"], CLAMP_HEIGHTS["clear"]), None)

main_step4 ==
    Called("goto_and_pickup_tray",
           goto_and_pickup_tray(1, GRIP_HEIGHTS["battery"], CLEAR_HEIGHT), None) \o
    Called("release_into_clamp",
           release_into_clamp(CLAMP_HEIGHTS["release_battery"], CLAMP_HEIGHTS["clear"]), None)

main_step5 ==
    Called("goto_and_pickup_tray",
           goto_and_pickup_tray(3, GRIP_HEIGHTS["pedestal"], CLEAR_HEIGHT), None) \o
    Called("tighten_cap", tighten_cap, None)

main_step6 ==
    Called("pickup_from_clamp", pickup_from_clamp(mm(185, 0), CLAMP_HEIGHTS["clear"]), None) \o
    Called("goto_and_release_tray", goto_and_release_tray(4, mm(89, 900), CLEAR_HEIGHT), None)

main_end_no_home == Called("main", <<>>, None)

main_end == Called("main", <<robot_MoveJ(HOME_POSITION)>>, None)

main ==
    main_start \o main_step2 \o main_step3 \o main_step4 \o main_step5 \o
    main_step6 \o main_end

\* The statements run for an entry call: the script's own entry point runs
\* main(); any function can also be called on its own with explicit arguments.
Program(inv) ==
    LET a == inv.args IN
    CASE inv.fn = "main" -> main
      [] inv.fn = "tray_pose" -> Called("tray_pose", <<>>, tray_pose(a[1], a[2]))
      [] inv.fn = "goto_and_pickup_tray" ->
            Called(inv.fn, goto_and_pickup_tray(a[1], a[2], a[3]), None)
      [] inv.fn = "goto_and_release_tray" ->
            Called(inv.fn, goto_and_release_tray(a[1], a[2], a[3]), None)
      [] inv.fn = "move_endcap_to_pedestal" -> Called(inv.fn, move_endcap_to_pedestal, None)
      [] inv.fn = "pickup_from_clamp" -> Called(inv.fn, pickup_from_clamp(a[1], a[2]), None)
      [] inv.fn = "release_into_clamp" -> Called(inv.fn, release_into_clamp(a[1], a[2]), None)
      [] inv.fn = "tighten_cap" -> Called(inv.fn, tighten_cap, None)

\* Control state after the command at position p raises: no function has a
\* try/except, so the exception escapes main() and the script terminates.
on_raise_swallow(p) == [pc |-> p + 1, status |-> "running"]

on_raise(p) == [pc |-> p, status |-> "raised"]

(***************************************************************************)
(* The external controller                                                 *)
(***************************************************************************)
\* Robot states a custom-code command can leave behind.
custom_code_outcomes(code, r) ==
    CASE code = "rq_close_and_wait()" -> {[r EXCEPT !.gripper = "closed"]}
      [] code = "rq_open()"           -> {[r EXCEPT !.gripper = "open"]}
      [] code = "clamp()"             -> {[r EXCEPT !.clamp = "engaged"]}
      [] code = "unclamp()"           -> {[r EXCEPT !.clamp = "released"]}
      [] OTHER -> \* torque-limited tightening: the controller decides where
                  \* joint 6 stops and how it leaves the gripper
                  {[r EXCEPT !.tcp = [kind |-> "controller", v |-> <<>>], !.gripper = g] :
                      g \in {"open", "closed"}}

RobotStart ==
    {[tcp |-> [kind |-> "unknown", v |-> <<>>], gripper |-> g, clamp |-> c,
      speed |-> 0, acceleration |-> 0, speed_joints |-> 0] :
        g \in {"open", "closed"}, c \in {"engaged", "released"}}

(***************************************************************************)
(* Actions: one per kind of statement                                      *)
(***************************************************************************)
Current == Program(invocation)[pc]

At(op) == status = "running" /\ pc <= Len(Program(invocation)) /\ Current.op = op

Issue(ok) ==
    issued' = Append(issued,
        [fn |-> Current.fn, op |-> Current.op, arg |-> Current.arg, ok |-> ok])

MoveJ ==
    /\ At("MoveJ")
    /\ Issue(TRUE)
    /\ robot' = [robot EXCEPT !.tcp = Current.arg]
    /\ pc' = pc + 1
    /\ UNCHANGED <<invocation, status, result>>

MoveL ==
    /\ At("MoveL")
    /\ Issue(TRUE)
    /\ robot' = [robot EXCEPT !.tcp = Current.arg]
    /\ pc' = pc + 1
    /\ UNCHANGED <<invocation, status, result>>

RunCodeCustom ==
    /\ At("RunCodeCustom")
    /\ Issue(TRUE)
    /\ robot' \in custom_code_outcomes(Current.arg.code, robot)
    /\ pc' = pc + 1
    /\ UNCHANGED <<invocation, status, result>>

setSpeed ==
    /\ At("setSpeed")
    /\ Issue(TRUE)
    /\ robot' = [robot EXCEPT !.speed = Current.arg]
    /\ pc' = pc + 1
    /\ UNCHANGED <<invocation, status, result>>

setAcceleration ==
    /\ At("setAcceleration")
    /\ Issue(TRUE)
    /\ robot' = [robot EXCEPT !.acceleration = Current.arg]
    /\ pc' = pc + 1
    /\ UNCHANGED <<invocation, status, result>>

setSpeedJoints ==
    /\ At("setSpeedJoints")
    /\ Issue(TRUE)
    /\ robot' = [robot EXCEPT !.speed_joints = Current.arg]
    /\ pc' = pc + 1
    /\ UNCHANGED <<invocation, status, result>>

\* A call returns; the return of the entry call ends the run.
Return ==
    /\ At("return")
    /\ result' = Current.arg
    /\ pc' = pc + 1
    /\ status' = IF pc = Len(Program(invocation)) THEN "done" ELSE "running"
    /\ UNCHANGED <<invocation, issued, robot>>

\* The runtime raises on the command being issued.
Raise ==
    /\ status = "running" /\ pc <= Len(Program(invocation))
    /\ Current.op # "return"
    /\ Issue(FALSE)
    /\ pc' = on_raise(pc).pc
    /\ status' = on_raise(pc).status
    /\ UNCHANGED <<invocation, robot, result>>

Next ==
    \/ MoveJ
    \/ MoveL
    \/ RunCodeCustom
    \/ setSpeed
    \/ setAcceleration
    \/ setSpeedJoints
    \/ Return
    \/ Raise

\* python flashlight_assembly.py
Init ==
    /\ invocation = [fn |-> "main", args |-> <<>>]
    /\ pc = 1
    /\ status = "running"
    /\ issued = <<>>
    /\ robot \in RobotStart
    /\ result = None

Spec == Init /\ [][Next]_vars

\* One function called on its own, arguments drawn from small sets.
Heights == {mm(z, 0) : z \in 0..MaxHeight} \cup {CLEAR_HEIGHT, GRIP_HEIGHTS["head"]}

Slots == DOMAIN tray_coords

UnitCalls ==
    {[fn |-> "tray_pose", args |-> <<s, z>>] : s \in Slots, z \in Heights}
    \cup {[fn |-> "goto_and_pickup_tray", args |-> <<s, h, c>>] :
             s \in Slots, h \in Heights, c \in Heights}
    \cup {[fn |-> "goto_and_release_tray", args |-> <<s, h, c>>] :
             s \in Slots, h \in Heights, c \in Heights}
    \cup {[fn |-> f, args |-> <<h, c>>] :
             f \in {"pickup_from_clamp", "release_into_clamp"}, h \in Heights, c \in Heights}
    \cup {[fn |-> f, args |-> <<>>] : f \in {"move_endcap_to_pedestal", "tighten_cap"}}

InitUnit ==
    /\ invocation \in UnitCalls
    /\ pc = 1
    /\ status = "running"
    /\ issued = <<>>
    /\ robot \in RobotStart
    /\ result = None

SpecUnit == InitUnit /\ [][Next]_vars

(***************************************************************************)
(* Vocabulary of the properties: read off the commands issued              *)
(***************************************************************************)
IsPrefix(s, t) == Len(s) <= Len(t) /\ s = SubSeq(t, 1, Len(s))

IsMove(e) == e.op \in {"MoveJ", "MoveL"}

IsCode(e, code) == e.op = "RunCodeCustom" /\ e.arg.code = code

IsGripper(e) == IsCode(e, "rq_close_and_wait()") \/ IsCode(e, "rq_open()")

IsClampCmd(e) == IsCode(e, "clamp()") \/ IsCode(e, "unclamp()")

\* A clamp command the controller carried out.
IsClampDone(e) == IsClampCmd(e) /\ e.ok

IsMoveTo(e, op, target) == e.op = op /\ e.arg = target

\* Motion and tool commands only (speed and acceleration settings left out),
\* without the outcome flag.
Acts(log) ==
    LET kept == SelectSeq(log, LAMBDA e : IsMove(e) \/ e.op = "RunCodeCustom")
    IN  [i \in 1..Len(kept) |-> [op |-> kept[i].op, arg |-> kept[i].arg]]

IssuedBy(fn) == SelectSeq(issued, LAMBDA e : e.fn = fn)

\* The tray slot a motion target lies above, -1 when it is no tray pose.
SlotOf(t) ==
    IF t.kind = "pose" /\ \E s \in Slots : <<t.v[1], t.v[2]>> = tray_coords[s]
    THEN CHOOSE s \in Slots : <<t.v[1], t.v[2]>> = tray_coords[s]
    ELSE -1

\* The tray slot the last motion command before position i aimed at, -1 when
\* there is none or it aimed at no tray pose.
SlotBefore(log, i) ==
    LET idx == {j \in 1..(i - 1) : IsMove(log[j])}
    IN  IF idx = {} THEN -1
        ELSE SlotOf(log[CHOOSE j \in idx : \A k \in idx : k <= j].arg)

\* Gripper actuations made while the last motion target was a tray pose.
TrayOps(log) ==
    LET tagged == [i \in 1..Len(log) |-> [e |-> log[i], at |-> SlotBefore(log, i)]]
        kept   == SelectSeq(tagged, LAMBDA t : IsGripper(t.e) /\ t.at >= 0)
    IN  [i \in 1..Len(kept) |-> [code |-> kept[i].e.arg.code, slot |-> kept[i].at]]

\* Tray slots in the order the motion targets visit them; consecutive moves
\* above one slot are one visit.
TrayVisits(log) ==
    LET moves  == SelectSeq(log, IsMove)
        slot   == [i \in 1..Len(moves) |-> SlotOf(moves[i].arg)]
        tagged == [i \in 1..Len(moves) |->
                      [s |-> slot[i],
                       new |-> slot[i] >= 0 /\ (i = 1 \/ slot[i - 1] # slot[i])]]
        kept   == SelectSeq(tagged, LAMBDA t : t.new)
    IN  [i \in 1..Len(kept) |-> kept[i].s]

ExpectedTrayOps ==
    <<[code |-> "rq_close_and_wait()", slot |-> 0],
      [code |-> "rq_close_and_wait()", slot |-> 2],
      [code |-> "rq_close_and_wait()", slot |-> 1],
      [code |-> "rq_close_and_wait()", slot |-> 3],
      [code |-> "rq_open()", slot |-> 4]>>

C2_FirstAndLastAreHome ==
    /\ Len(issued) >= 1 => IsMoveTo(issued[1], "MoveJ", HOME_POSITION)
    /\ status = "done" => IsMoveTo(issued[Len(issued)], "MoveJ", HOME_POSITION)

(***************************************************************************)
(* C2 amended: the first command main() issues is unclamp(); the first     *)
(* motion command, which is the second command, and the last command of a  *)
(* completed run are both a joint move to                                  *)
(* HOME_POSITION = [0, -90, 0, -90, 0, 0].                                 *)
(***************************************************************************)
C2_HomeFirstMoveAndLast ==
    /\ Len(issued) >= 1 => IsCode(issued[1], "unclamp()")
    /\ Len(issued) >= 2 =>
          IsMoveTo(issued[2], "MoveJ", Joints(<<0, -90000000, 0, -90000000, 0, 0>>))
    /\ status = "done" =>
          IsMoveTo(issued[Len(issued)], "MoveJ", Joints(<<0, -90000000, 0, -90000000, 0, 0>>))

C2_Witness == status = "done" /\ Len(issued) > 2 /\ issued[2].op = "MoveJ"

(***************************************************************************)
(* C3: tighten_cap makes exactly 6 oscillation cycles, each a gripper      *)
(* close-and-wait, a joint move to final_turning_angle, a gripper open and *)
(* a joint move back to initial_turning_angle (joint-speed settings aside);*)
(* the six are complete before the one tighten_torque command and nothing  *)
(* but unclamp() follows it.                                               *)
(***************************************************************************)
OscillationCycle ==
    <<robot_RunCodeCustom("rq_close_and_wait()", 0),
      robot_MoveJ(final_turning_angle),
      robot_RunCodeCustom("rq_open()", 0),
      robot_MoveJ(initial_turning_angle)>>

C3_SixCyclesBeforeTorque ==
    LET seg == Acts(IssuedBy("tighten_cap"))
        cycles == OscillationCycle \o OscillationCycle \o OscillationCycle \o
                  OscillationCycle \o OscillationCycle \o OscillationCycle
        closes(n) == Cardinality({i \in 1..n : IsCode(seg[i], "rq_close_and_wait()")})
    IN  /\ Len(seg) > 3 => IsPrefix(SubSeq(seg, 4, Len(seg)),
                                    cycles \o <<robot_MoveJ(tighten_torque_pose),
                                                robot_RunCodeCustom(tighten_torque_code, 0),
                                                robot_RunCodeCustom("unclamp()", 0)>>)
        /\ \A i \in 1..Len(seg) : seg[i].op = "RunCodeCustom" /\ i <= 3 => IsCode(seg[i], "clamp()")
        /\ \A i \in 1..Len(seg) :
              IsCode(seg[i], tighten_torque_code) =>
                  /\ closes(i) = 6
                  /\ closes(Len(seg)) = 6
                  /\ \A j \in 1..Len(seg) : IsCode(seg[j], tighten_torque_code) => j = i

C3_Witness ==
    /\ status = "done"
    /\ \E i \in 1..Len(issued) : IsCode(issued[i], tighten_torque_code) /\ issued[i].ok

(***************************************************************************)
(* C4: goto_and_pickup_tray(0, h, c) approaches with a joint move to       *)
(* ENDCAP_CLR_JOINTS and issues no move to the slot-0 tray pose at clear   *)
(* height before the descent; for slots 1..4 the approach is a move to the *)
(* Cartesian tray pose of the slot at clear height.                        *)
(***************************************************************************)
C4_SlotZeroJointApproach ==
    invocation.fn = "goto_and_pickup_tray" =>
        LET s == invocation.args[1]
            h == invocation.args[2]
            c == invocation.args[3]
            x == tray_coords[s][1]
            y == tray_coords[s][2]
            moves == SelectSeq(issued, IsMove)
        IN  /\ Len(moves) >= 1 =>
                 IF s = 0
                 THEN /\ moves[1].op = "MoveJ"
                      /\ moves[1].arg.kind = "joints"
                      /\ moves[1].arg = ENDCAP_CLR_JOINTS
                      /\ moves[1].arg # Pose(x, y, c, 180, 0, 90)
                 ELSE /\ moves[1].op = "MoveJ"
                      /\ moves[1].arg = Pose(x, y, c, 180, 0, 90)
            /\ Len(moves) >= 2 => IsMoveTo(moves[2], "MoveL", Pose(x, y, h, 180, 0, 90))

C4_Witness ==
    /\ invocation.fn = "goto_and_pickup_tray"
    /\ invocation.args[1] = 0
    /\ invocation.args[2] # invocation.args[3]
    /\ status = "done"
    /\ Len(issued) = 6

(***************************************************************************)
(* C5: for every tray slot s in 0..4 and height z, tray_pose(s, z) returns *)
(* the pose (tray_coords[s].x, tray_coords[s].y, z, 180, 0, 90).           *)
(***************************************************************************)
C5_TrayPose ==
    (invocation.fn = "tray_pose" /\ status = "done") =>
        /\ result.kind = "pose"
        /\ result.v = <<tray_coords[invocation.args[1]][1],
                        tray_coords[invocation.args[1]][2],
                        invocation.args[2], 180, 0, 90>>

C5_Witness ==
    /\ invocation.fn = "tray_pose"
    /\ status = "done"
    /\ invocation.args[1] = 4
    /\ invocation.args[2] = CLEAR_HEIGHT
    /\ result.kind = "pose"

(***************************************************************************)
(* C6 as stated: pickup_from_clamp first moves to the clamp (x, y) at      *)
(* clear height, then descends linearly to the pickup height, then closes  *)
(* the gripper, then retracts to clear height.                             *)
(***************************************************************************)
C6_PickupFromClampApproaches ==
    LET seg  == Acts(IssuedBy("pickup_from_clamp"))
        safe == Pose(CLAMP_XY[1], CLAMP_XY[2], CLAMP_HEIGHTS["clear"], 180, 0, 90)
        pick == Pose(CLAMP_XY[1], CLAMP_XY[2], mm(185, 0), 180, 0, 90)
    IN  /\ Len(seg) >= 1 => IsMove(seg[1]) /\ seg[1].arg = safe
        /\ Len(seg) >= 2 => IsMoveTo(seg[2], "MoveL", pick)
        /\ Len(seg) >= 3 => IsCode(seg[3], "rq_close_and_wait()")
        /\ Len(seg) >= 4 => IsMove(seg[4]) /\ seg[4].arg = safe

(***************************************************************************)
(* C7: a command that fails is the last command main() issues, so the      *)
(* commands issued are a prefix of the normal command sequence and the run *)
(* has ended with the exception.                                           *)
(***************************************************************************)
NormalSequence ==
    LET cmds == SelectSeq(main, LAMBDA st : st.op # "return")
    IN  [i \in 1..Len(cmds) |-> [op |-> cmds[i].op, arg |-> cmds[i].arg]]

C7_NoRecovery ==
    /\ \A i \in 1..Len(issued) : ~issued[i].ok => i = Len(issued) /\ status = "raised"
    /\ IsPrefix([i \in 1..Len(issued) |-> [op |-> issued[i].op, arg |-> issued[i].arg]],
                NormalSequence)

C7_Witness ==
    /\ status = "raised"
    /\ Len(issued) > 50
    /\ ~issued[Len(issued)].ok
    /\ robot.gripper = "closed"

C9_EndcapToPedestalOrder ==
    IsPrefix(Acts(IssuedBy("move_endcap_to_pedestal")),
             <<robot_MoveJ(INTERMEDIATE_JOINTS),
               robot_MoveJ(PED_CLR_JOINTS),
               robot_MoveL(PED_DROP_JOINTS),
               robot_RunCodeCustom("rq_open()", 0),
               robot_MoveL(PED_CLR_JOINTS)>>)

(***************************************************************************)
(* C10: once the opening unclamp() of main() has run, the clamp is engaged *)
(* only while control is inside tighten_cap after its clamp() and before   *)
(* its unclamp(); the gripper commands of release_into_clamp and of        *)
(* pickup_from_clamp are issued with the clamp released; and when main()   *)
(* completes every clamp() has a later unclamp(), the last clamp command   *)
(* is unclamp() and the last gripper command is rq_open().                 *)
(***************************************************************************)
LastWhere(P(_)) ==
    LET idx == {i \in 1..Len(issued) : P(issued[i])}
    IN  IF idx = {} THEN 0 ELSE CHOOSE i \in idx : \A j \in idx : j <= i

====
